---- MODULE Spec2Model ----
(***************************************************************************)
(* A model of the healthcheck command line utility (src/src/main.rs).      *)
(*                                                                         *)
(* One run of the program: argument parsing (clap), then run_checks, which *)
(* evaluates the Timestamp, AMQP, Postgres, Redis and HTTP checks in that  *)
(* order and returns the first Err, then main's mapping of the result to   *)
(* the exit code and standard error.                                       *)
(*                                                                         *)
(* Text is a sequence of one-character strings; an Option is a sequence of *)
(* length 0 (None) or 1 (Some(v)); a URL is a pair <<scheme, rest>>.       *)
(* The machine integer (i64 in the source) is modelled with IntBits bits.  *)
(***************************************************************************)
EXTENDS Integers, Sequences, FiniteSets, TLC

\* ---------------------------------------------------------------- bounds

\* Width of the machine integer that stands for i64.
IntBits == 12
\* Longest input text of the parse_int_safe harness.
MaxLen == 5

I64Max == 2^(IntBits - 1) - 1
I64Min == -I64Max - 1

\* Two's complement wrap-around of a result that left the integer type.
Wrap(x) == ((x - I64Min) % (2^IntBits)) + I64Min
InRange(x) == I64Min <= x /\ x <= I64Max

\* ---------------------------------------------------------------- options

None == <<>>
Some(v) == <<v>>
IsSome(o) == Len(o) = 1
\* Option::unwrap_or
unwrap_or(o, d) == IF IsSome(o) THEN o[1] ELSE d

\* ---------------------------------------------------------------- text

Digits == {"0", "1", "2", "3", "4", "5", "6", "7", "8", "9"}

DigitVal(c) ==
  CASE c = "0" -> 0 [] c = "1" -> 1 [] c = "2" -> 2 [] c = "3" -> 3 [] c = "4" -> 4
    [] c = "5" -> 5 [] c = "6" -> 6 [] c = "7" -> 7 [] c = "8" -> 8 [] c = "9" -> 9

DigitChar(d) ==
  CASE d = 0 -> "0" [] d = 1 -> "1" [] d = 2 -> "2" [] d = 3 -> "3" [] d = 4 -> "4"
    [] d = 5 -> "5" [] d = 6 -> "6" [] d = 7 -> "7" [] d = 8 -> "8" [] d = 9 -> "9"

\* char::to_digit(10): Some(value) for an ASCII decimal digit, None otherwise.
to_digit(c) == IF c \in Digits THEN Some(DigitVal(c)) ELSE None

\* char::from_digit(d, 10): Some(char) for d < 10, None otherwise.
from_digit(d) == IF d \in 0..9 THEN Some(DigitChar(d)) ELSE None

RECURSIVE ConcatAll(_)
ConcatAll(ss) == IF ss = <<>> THEN <<>> ELSE Head(ss) \o ConcatAll(Tail(ss))

\* Display of a non-negative integer ({} of an i64 without sign).
RECURSIVE NatToStr(_)
NatToStr(n) == IF n < 10 THEN <<DigitChar(n)>> ELSE NatToStr(n \div 10) \o <<DigitChar(n % 10)>>

\* Display of an integer, as the {} of format! prints it.
IntToStr(n) == IF n < 0 THEN <<"-">> \o NatToStr(-n) ELSE NatToStr(n)

\* The checked accumulation of str::parse::<i64>: digit by digit, the
\* accumulator times ten plus (or, for a negative literal, minus) the digit,
\* an Err (None) as soon as a step leaves the integer type.
RECURSIVE Accumulate(_, _, _)
Accumulate(ds, acc, neg) ==
  IF ds = <<>> THEN Some(acc)
  ELSE LET m == acc * 10
           n == IF neg THEN m - DigitVal(Head(ds)) ELSE m + DigitVal(Head(ds))
       IN IF ~InRange(m) \/ ~InRange(n) THEN None ELSE Accumulate(Tail(ds), n, neg)

\* str::parse::<i64>: an optional sign, then one or more ASCII digits and
\* nothing else; None stands for Err(ParseIntError).
ParseI64(s) ==
  IF s = <<>> THEN None
  ELSE LET signed == s[1] \in {"+", "-"}
           body == IF signed THEN Tail(s) ELSE s
       IN IF body = <<>> \/ (\E i \in 1..Len(body) : body[i] \notin Digits) THEN None
          ELSE Accumulate(body, 0, s[1] = "-")

\* A variant that keeps the first run of digits only.
RECURSIVE LeadingDigits(_)
LeadingDigits(str) ==
  IF str = <<>> \/ Head(str) \notin Digits THEN <<>>
  ELSE <<Head(str)>> \o LeadingDigits(Tail(str))

RECURSIVE CollectFirstRun(_)
CollectFirstRun(str) ==
  IF str = <<>> THEN <<>>
  ELSE IF Head(str) \in Digits THEN LeadingDigits(str) ELSE CollectFirstRun(Tail(str))

\* The digit string parse_int_safe collects: filter_map(to_digit), then
\* filter_map(from_digit), then collect::<String>().
CollectDigits(str) ==
  LET vals == ConcatAll([i \in 1..Len(str) |-> to_digit(str[i])])
  IN ConcatAll([i \in 1..Len(vals) |-> from_digit(vals[i])])

\* A variant that yields 0 where the parse fails (unwrap_or(0)).
parse_int_safeOrZero(str) ==
  IF ParseI64(CollectDigits(str)) = None THEN Some(0) ELSE ParseI64(CollectDigits(str))

\* parse_int_safe without its final unwrap: None is the panic of .unwrap().
parse_int_safe(str) == ParseI64(CollectDigits(str))

\* ---------------------------------------------------------------- program constants

Checks == {"timestamp", "amqp", "postgres", "redis", "http"}

\* The order of run_checks.
Order == <<"timestamp", "amqp", "postgres", "redis", "http">>
Ord(c) == CHOOSE i \in 1..Len(Order) : Order[i] = c

OptNames == {"timestamp-timeout", "timestamp-file", "amqp-url", "postgres-url",
             "redis-url", "http-url"}

\* Arg::requires of every option that takes a value.
Requires ==
  [o \in OptNames |->
     CASE o = "timestamp-timeout" -> "timestamp"
       [] o = "timestamp-file" -> "timestamp"
       [] o = "amqp-url" -> "amqp"
       [] o = "postgres-url" -> "postgres"
       [] o = "redis-url" -> "redis"
       [] o = "http-url" -> "http"]

EnvNames == {"AMQP_URL", "POSTGRES_URL", "REDIS_URL", "HTTP_URL"}

DefaultFile == <<"/app/tmp/health.all">>
DefaultTimeoutText == <<"2", "0">>
DefaultTimeout == 20
AmqpDefault == <<"amqp", "guest:guest@amqp:5432/amqp">>
PostgresDefault == <<"postgres", "postgres:postgres@postgres:5432/postgres">>
RedisDefault == <<"redis", "redis:6379/0">>
HttpDefault == <<"http", "localhost:8080">>

\* redis::Client::open accepts a URL of one of these schemes only.
RedisSchemes == {"redis", "rediss", "unix", "redis+unix"}
RedisUrlValid(url) == url[1] \in RedisSchemes

\* ---------------------------------------------------------------- inputs

\* Values of --timestamp-timeout: absent, an integer literal other than the
\* default, a text that is no integer, the smallest integer of the type.
TimeoutValues == {None, Some(<<"3", "0">>), Some(<<"x">>), Some(IntToStr(I64Min))}
FileValues == {None, Some(<<"/tmp/heartbeat">>)}
UrlValues(scheme) == {None, Some(<<scheme, "cli">>)}

EnvValues(name) ==
  CASE name = "AMQP_URL" -> {None, Some(<<"amqp", "env">>)}
    [] name = "POSTGRES_URL" -> {None, Some(<<"postgres", "env">>)}
    [] name = "REDIS_URL" -> {None, Some(<<"redis", "env">>), Some(<<"http", "env">>)}
    [] name = "HTTP_URL" -> {None, Some(<<"http", "env">>)}

OptValues(o) ==
  CASE o = "timestamp-timeout" -> TimeoutValues
    [] o = "timestamp-file" -> FileValues
    [] o = "amqp-url" -> UrlValues("amqp")
    [] o = "postgres-url" -> UrlValues("postgres")
    [] o = "redis-url" -> UrlValues("redis")
    [] o = "http-url" -> UrlValues("http")

\* The command lines of the model: any set of enabling flags, any options.
ArgvSet ==
  {[flags |-> f, opts |-> o] :
     f \in SUBSET Checks,
     o \in {g \in [OptNames -> UNION {OptValues(n) : n \in OptNames}] :
              \A n \in OptNames : g[n] \in OptValues(n)}}

EnvSet ==
  {e \in [EnvNames -> UNION {EnvValues(n) : n \in EnvNames}] :
     \A n \in EnvNames : e[n] \in EnvValues(n)}

\* What std::fs::read_to_string can yield: Err (None) or the file's text.
FileStates ==
  {None,
   Some(<<>>),
   Some(<<"o", "k", "\n">>),
   Some(<<"9", "0">>),
   Some(<<"8", "0", "\n">>),
   Some(<<"t", "s", ":", " ", "7", "0", "\n">>),
   Some(<<"1", " ", "5", "0">>),
   Some(IntToStr(I64Max) \o <<"0">>)}

\* chrono::offset::Utc::now().timestamp()
Nows == {100, 130}

\* Texts of the errors the client libraries report.
ErrTexts == {<<"connection refused">>, <<"expected ", "\"", "200", "\"", "\n", "got EOF">>}

NetWorlds(steps) ==
  {[net |-> "ok", err |-> <<>>]} \cup {[net |-> s, err |-> e] : s \in steps, e \in ErrTexts}

\* ---------------------------------------------------------------- state

VARIABLES
  pc,        \* where the run is: "parse", a check of Order, "report", "exited", "rejected"
  args,      \* the command line: [flags, opts]
  env,       \* the environment after dotenv::dotenv()
  calls,     \* the checks run_checks has evaluated, in order, with what each returned
  probes,    \* the probes started, in order: [check, target]
  obs,       \* what the check evaluated last read from the outside world
  result,    \* what run_checks returned: Pending, Ok or Err(msg)
  stderr,    \* what was written to standard error, as a sequence of text chunks
  exitCode,  \* the exit status: None while the process runs
  input,     \* parse_int_safe harness: the text
  parsed     \* parse_int_safe harness: [done, value]

vars == <<pc, args, env, calls, probes, obs, result, stderr, exitCode, input, parsed>>

\* ---------------------------------------------------------------- clap

\* A variant under which the HTTP check has lost its guard.
is_presentHttpUnguarded(a, name) == name = "http" \/ name \in a.flags

\* ArgMatches::is_present for an enabling flag.
is_present(a, name) == name \in a.flags

\* ArgMatches::value_of for an option taking a value.
value_of(a, name) == a.opts[name]

\* A variant in which --http-url does not declare requires("http").
AcceptedHttpUrlFree(a) ==
  \A o \in OptNames \ {"http-url"} : IsSome(a.opts[o]) => Requires[o] \in a.flags

\* Whether get_matches accepts the command line: every option given has the
\* argument it requires.
Accepted(a) == \A o \in OptNames : IsSome(a.opts[o]) => Requires[o] \in a.flags

\* dotenv::var(name).unwrap_or(default)
var_or(e, name, default) == unwrap_or(e[name], default)

\* ---------------------------------------------------------------- results

Pending == [kind |-> "Pending", msg |-> <<>>]
Ok == [kind |-> "Ok", msg |-> <<>>]
Err(m) == [kind |-> "Err", msg |-> m]

\* A check's view of the outside world: the file read ("unread", "unreadable"
\* or "read", and its text), the clock, the threshold in force, and the
\* server's answer (net: "none" when no connection was tried, "ok", or the
\* step that failed, with the error's text).
NoObs(c) ==
  [check |-> c, file |-> "unread", text |-> <<>>, now |-> 0, timeout |-> 0,
   net |-> "none", err |-> <<>>]

\* The Debug rendering of one character of a str.
EscapeDebug(c) ==
  IF c = "\"" THEN "\\\"" ELSE IF c = "\n" THEN "\\n" ELSE IF c = "\\" THEN "\\\\" ELSE c

\* format!("{:?}", msg) of a String: the text between double quotes, escaped.
DebugStr(m) == <<"\"">> \o [i \in 1..Len(m) |-> EscapeDebug(m[i])] \o <<"\"">>

\* A variant that prints the message with {} instead of {:?}.
ErrorLineDisplay(m) == <<"Error: ">> \o m \o <<"\n">>

\* eprintln!("Error: {:?}", err)
ErrorLine(m) == <<"Error: ">> \o DebugStr(m) \o <<"\n">>

\* What the panic handler writes for a failed unwrap or an arithmetic overflow.
PanicMessage(what) == <<"thread 'main' panicked at ", what, "\n">>

\* What clap writes when it rejects the command line.
ClapError == <<"error: The following required arguments were not provided", "\n">>

\* ---------------------------------------------------------------- run_checks

\* A variant of run_checks that goes on to the next check after an Err.
AfterCheckKeepsGoing(c, r) == IF Ord(c) = Len(Order) THEN "report" ELSE Order[Ord(c) + 1]

\* `if let Err(e) = X::check(&args) { return Err(e); }`, then the next check,
\* and Ok(()) after the last: where run_checks goes when check c returned r.
AfterCheck(c, r) ==
  IF r.kind = "Err" THEN "report"
  ELSE IF Ord(c) = Len(Order) THEN "report" ELSE Order[Ord(c) + 1]

\* What run_checks has returned once check c returned r.
ResultAfter(c, r) ==
  IF r.kind = "Err" THEN r ELSE IF Ord(c) = Len(Order) THEN Ok ELSE Pending

\* Check c returns r to run_checks, having read o and started the probes ps.
Return(c, r, o, ps) ==
  /\ calls' = Append(calls, [check |-> c, ret |-> r.kind])
  /\ obs' = o
  /\ probes' = ps
  /\ pc' = AfterCheck(c, r)
  /\ result' = ResultAfter(c, r)
  /\ UNCHANGED <<args, env, stderr, exitCode, input, parsed>>

\* Check c panics (an unwrap of an Err, an overflow under overflow checks):
\* the process ends with status 101 and the panic message on standard error.
Panic(c, what, o, ps) ==
  /\ calls' = Append(calls, [check |-> c, ret |-> "Panic"])
  /\ obs' = o
  /\ probes' = ps
  /\ pc' = "exited"
  /\ exitCode' = Some(101)
  /\ stderr' = stderr \o PanicMessage(what)
  /\ UNCHANGED <<args, env, result, input, parsed>>

\* ---------------------------------------------------------------- main

\* cli.get_matches(): clap ends the process with status 1 when an option is
\* given without the argument it requires; otherwise run_checks starts.
GetMatches ==
  /\ pc = "parse"
  /\ \/ /\ Accepted(args)
        /\ pc' = Order[1]
        /\ UNCHANGED <<stderr, exitCode>>
     \/ /\ ~Accepted(args)
        /\ pc' = "rejected"
        /\ stderr' = stderr \o ClapError
        /\ exitCode' = Some(1)
  /\ UNCHANGED <<args, env, calls, probes, obs, result, input, parsed>>

\* std::process::exit(match run_checks(matches) { Ok => 0, Err => print, 1 })
MainExit ==
  /\ pc = "report"
  /\ \/ /\ result.kind = "Ok"
        /\ exitCode' = Some(0)
        /\ UNCHANGED stderr
     \/ /\ result.kind = "Err"
        /\ stderr' = stderr \o ErrorLine(result.msg)
        /\ exitCode' = Some(1)
  /\ pc' = "exited"
  /\ UNCHANGED <<args, env, calls, probes, obs, result, input, parsed>>

\* ---------------------------------------------------------------- Timestamp

\* args.value_of("timestamp-file").unwrap_or("/app/tmp/health.all")
FileOf(a) == unwrap_or(value_of(a, "timestamp-file"), DefaultFile)

\* A variant that falls back to 0 (unwrap_or_default) when the parse fails.
TimeoutOfOrZero(a) ==
  unwrap_or(ParseI64(unwrap_or(a.opts["timestamp-timeout"], <<"2", "0">>)), 0)

\* args.value_of("timestamp-timeout").unwrap_or("20").parse().unwrap_or(20)
TimeoutOf(a) ==
  unwrap_or(ParseI64(unwrap_or(value_of(a, "timestamp-timeout"), DefaultTimeoutText)),
            DefaultTimeout)

\* a - b on the machine integer: the difference when it fits; when it does
\* not, a panic (None) in a build with overflow checks and the wrapped value
\* in a build without them.
Sub(a, b) == IF InRange(a - b) THEN {Some(a - b)} ELSE {None, Some(Wrap(a - b))}

\* The test `diff > timeout` of TimestampCheck::check.
TooOld(diff, timeout) == diff > timeout

\* format!("Timestamp: Diff larger then timeout by {}", n)
TimestampMessage(n) == <<"Timestamp: Diff larger then timeout by ">> \o IntToStr(n)

\* TimestampCheck::check. The file's state and the clock are the world's.
\* now - timestamp cannot leave the integer type: the timestamp is parsed
\* from digits alone and the clock is not negative.
TimestampCheck ==
  /\ pc = "timestamp"
  /\ \/ /\ ~is_present(args, "timestamp")
        /\ Return("timestamp", Ok, NoObs("timestamp"), probes)
     \/ /\ is_present(args, "timestamp")
        /\ \E content \in FileStates :
             LET file == FileOf(args)
                 timeout == TimeoutOf(args)
                 ps == Append(probes, [check |-> "timestamp", target |-> file])
                 o == [NoObs("timestamp") EXCEPT !.timeout = timeout]
             IN IF content = None
                THEN Panic("timestamp", "unwrap: read_to_string",
                           [o EXCEPT !.file = "unreadable"], ps)
                ELSE LET timestamp == parse_int_safe(content[1])
                         o2 == [o EXCEPT !.file = "read", !.text = content[1]]
                     IN IF timestamp = None
                        THEN Panic("timestamp", "unwrap: ParseIntError", o2, ps)
                        ELSE \E now \in Nows :
                               LET diff == now - timestamp[1]
                                   o3 == [o2 EXCEPT !.now = now]
                               IN IF TooOld(diff, timeout)
                                  THEN \E over \in Sub(diff, timeout) :
                                         IF over = None
                                         THEN Panic("timestamp", "subtract with overflow", o3, ps)
                                         ELSE Return("timestamp", Err(TimestampMessage(over[1])),
                                                     o3, ps)
                                  ELSE Return("timestamp", Ok, o3, ps)

\* ---------------------------------------------------------------- AMQP

\* A variant that prefers the environment variable to the option.
AmqpUrlEnvFirst(a, e) ==
  unwrap_or(e["AMQP_URL"], unwrap_or(a.opts["amqp-url"], <<"amqp", "guest:guest@amqp:5432/amqp">>))

\* dotenv::var("AMQP_URL").unwrap_or(default), then
\* args.value_of("amqp-url").unwrap_or(url)
AmqpUrl(a, e) == unwrap_or(value_of(a, "amqp-url"), var_or(e, "AMQP_URL", AmqpDefault))

\* What a network check returns for the server's answer w.
NetResult(prefix, w) == IF w.net = "ok" THEN Ok ELSE Err(<<prefix>> \o w.err)

NetObs(c, w) == [NoObs(c) EXCEPT !.net = w.net, !.err = w.err]

\* AmqpCheck::check: insecure_open, then open_channel.
AmqpCheck ==
  /\ pc = "amqp"
  /\ \/ /\ ~is_present(args, "amqp")
        /\ Return("amqp", Ok, NoObs("amqp"), probes)
     \/ /\ is_present(args, "amqp")
        /\ \E w \in NetWorlds({"connect", "channel"}) :
             Return("amqp", NetResult("AMQP: ", w), NetObs("amqp", w),
                    Append(probes, [check |-> "amqp", target |-> AmqpUrl(args, env)]))

\* ---------------------------------------------------------------- Postgres

PostgresUrl(a, e) ==
  unwrap_or(value_of(a, "postgres-url"), var_or(e, "POSTGRES_URL", PostgresDefault))

\* PostgresCheck::check: Client::connect, then query("SELECT 1").
PostgresCheck ==
  /\ pc = "postgres"
  /\ \/ /\ ~is_present(args, "postgres")
        /\ Return("postgres", Ok, NoObs("postgres"), probes)
     \/ /\ is_present(args, "postgres")
        /\ \E w \in NetWorlds({"connect", "query"}) :
             Return("postgres", NetResult("Postgres: ", w), NetObs("postgres", w),
                    Append(probes, [check |-> "postgres", target |-> PostgresUrl(args, env)]))

\* ---------------------------------------------------------------- Redis

RedisUrl(a, e) == unwrap_or(value_of(a, "redis-url"), var_or(e, "REDIS_URL", RedisDefault))

\* RedisCheck::check: Client::open(url).unwrap(), get_connection, INFO server.
RedisCheck ==
  /\ pc = "redis"
  /\ \/ /\ ~is_present(args, "redis")
        /\ Return("redis", Ok, NoObs("redis"), probes)
     \/ /\ is_present(args, "redis")
        /\ LET url == RedisUrl(args, env)
               ps == Append(probes, [check |-> "redis", target |-> url])
           IN IF ~RedisUrlValid(url)
              THEN Panic("redis", "unwrap: Redis URL did not parse", NoObs("redis"), ps)
              ELSE \E w \in NetWorlds({"connect", "command"}) :
                     Return("redis", NetResult("Redis: ", w), NetObs("redis", w), ps)

\* ---------------------------------------------------------------- Http

\* args.value_of("http-url").unwrap_or("http://localhost:8080")
HttpUrl(a) == unwrap_or(value_of(a, "http-url"), HttpDefault)

\* HttpCheck::check: ureq::get(url).call()
HttpCheck ==
  /\ pc = "http"
  /\ \/ /\ ~is_present(args, "http")
        /\ Return("http", Ok, NoObs("http"), probes)
     \/ /\ is_present(args, "http")
        /\ \E w \in NetWorlds({"request"}) :
             Return("http", NetResult("Http: ", w), NetObs("http", w),
                    Append(probes, [check |-> "http", target |-> HttpUrl(args)]))

\* ---------------------------------------------------------------- the program

Init ==
  /\ pc = "parse"
  /\ args \in ArgvSet
  /\ env \in EnvSet
  /\ calls = <<>>
  /\ probes = <<>>
  /\ obs = NoObs("none")
  /\ result = Pending
  /\ stderr = <<>>
  /\ exitCode = None
  /\ input = <<>>
  /\ parsed = [done |-> FALSE, value |-> None]

Next ==
  \/ GetMatches
  \/ TimestampCheck
  \/ AmqpCheck
  \/ PostgresCheck
  \/ RedisCheck
  \/ HttpCheck
  \/ MainExit

Spec == Init /\ [][Next]_vars

\* ---------------------------------------------------------------- parse_int_safe alone

Alphabet == {"0", "1", "2", "3", "4", " ", "\n", "-", "t"}

Texts == UNION {[1..k -> Alphabet] : k \in 0..MaxLen}

InitParse ==
  /\ pc = "unit"
  /\ args = [flags |-> {}, opts |-> [o \in OptNames |-> None]]
  /\ env = [n \in EnvNames |-> None]
  /\ calls = <<>>
  /\ probes = <<>>
  /\ obs = NoObs("none")
  /\ result = Pending
  /\ stderr = <<>>
  /\ exitCode = None
  /\ input \in Texts
  /\ parsed = [done |-> FALSE, value |-> None]

\* One application of parse_int_safe to the input text.
ParseStep ==
  /\ pc = "unit"
  /\ ~parsed.done
  /\ parsed' = [done |-> TRUE, value |-> parse_int_safe(input)]
  /\ UNCHANGED <<pc, args, env, calls, probes, obs, result, stderr, exitCode, input>>

NextParse == ParseStep

SpecParse == InitParse /\ [][NextParse]_vars

\* ---------------------------------------------------------------- vocabulary of the properties

LastCall == calls[Len(calls)]
Called(c) == \E i \in 1..Len(calls) : calls[i].check = c
Probed(c) == \E j \in 1..Len(probes) : probes[j].check = c
Finished == pc = "exited"

\* The decimal digits of a text, in order, and the number they denote.
DigitString(text) == SelectSeq(text, LAMBDA c : c \in Digits)

RECURSIVE DecimalValue(_)
DecimalValue(ds) ==
  IF ds = <<>> THEN 0 ELSE 10 * DecimalValue(SubSeq(ds, 1, Len(ds) - 1)) + DigitVal(ds[Len(ds)])

\* The name a check puts in front of its Failure message.
Prefix(c) ==
  CASE c = "timestamp" -> "Timestamp: Diff larger then timeout by "
    [] c = "amqp" -> "AMQP: "
    [] c = "postgres" -> "Postgres: "
    [] c = "redis" -> "Redis: "
    [] c = "http" -> "Http: "

\* The number of lines of a text written to a stream.
Lines(out) == Cardinality({i \in 1..Len(out) : out[i] = "\n"})

\* A process that ended by a panic: neither exit 0 nor exit 1, no Error line.
Crashed ==
  /\ pc = "exited"
  /\ exitCode \notin {None, Some(0), Some(1)}
  /\ \A i \in 1..Len(stderr) : stderr[i] # "Error: "
  /\ result = Pending

\* ---------------------------------------------------------------- C1

\* C1: run_checks evaluates the checks in the order Timestamp, AMQP, Postgres,
\* Redis, HTTP and stops at the first check that does not return Ok: no check
\* is evaluated, and no probe started, after a Failure. With Timestamp and
\* HTTP enabled and Timestamp failing, no HTTP request is issued.
C1_FailFastInOrder ==
  /\ \A i \in 1..Len(calls) : calls[i].check = Order[i]
  /\ \A i \in 1..Len(calls) : calls[i].ret # "Ok" => i = Len(calls)
  /\ \A j, k \in 1..Len(probes) : j < k => Ord(probes[j].check) < Ord(probes[k].check)
  /\ \A j \in 1..Len(probes) :
       /\ Called(probes[j].check)
       /\ \A i \in 1..Len(calls) :
            calls[i].ret # "Ok" => Ord(probes[j].check) <= Ord(calls[i].check)
  /\ (Len(calls) >= 1 /\ calls[1].ret = "Err") => ~Probed("http")
  /\ result.kind = "Err" => LastCall.ret = "Err"

C1_Witness ==
  /\ Finished
  /\ {"timestamp", "http"} \subseteq args.flags
  /\ calls = <<[check |-> "timestamp", ret |-> "Err"]>>
  /\ ~Probed("http")
  /\ exitCode = Some(1)

\* ---------------------------------------------------------------- C2

AllPassed == Len(calls) = Len(Order) /\ \A i \in 1..Len(calls) : calls[i].ret = "Ok"

\* The Debug rendering of a message: between double quotes, with double
\* quotes, backslashes and line breaks escaped.
Quoted(m) ==
  <<"\"">> \o
  [i \in 1..Len(m) |->
     CASE m[i] = "\"" -> "\\\"" [] m[i] = "\n" -> "\\n" [] m[i] = "\\" -> "\\\\"
       [] OTHER -> m[i]] \o
  <<"\"">>

\* C2 as stated: a run that got past argument parsing ends with exit code 0
\* and nothing printed exactly when all enabled checks passed, and otherwise
\* with exit code 1 and the one line `Error: <message>` on standard error,
\* <message> being the Failure message of the first failing check.
C2_AsStated ==
  Finished =>
    IF AllPassed
    THEN exitCode = Some(0) /\ stderr = <<>>
    ELSE /\ exitCode = Some(1)
         /\ result.kind = "Err"
         /\ stderr = <<"Error: ">> \o result.msg \o <<"\n">>

\* C2, amended: exit code 0 and nothing printed exactly when all enabled
\* checks passed; when a check returned a Failure, exit code 1 and exactly one
\* line, `Error: ` followed by the Debug rendering of the message of the first
\* failing check (quoted and escaped); when a check panicked, exit code 101 and
\* the panic message, no Error line.
C2_ExitCodeAndOutput ==
  Finished =>
    /\ (exitCode = Some(0)) <=> AllPassed
    /\ AllPassed => stderr = <<>>
    /\ LastCall.ret = "Err" =>
         /\ exitCode = Some(1)
         /\ result.kind = "Err"
         /\ result.msg[1] = Prefix(LastCall.check)
         /\ stderr = <<"Error: ">> \o Quoted(result.msg) \o <<"\n">>
         /\ Lines(stderr) = 1
    /\ LastCall.ret = "Panic" =>
         /\ exitCode = Some(101)
         /\ \A i \in 1..Len(stderr) : stderr[i] # "Error: "
    /\ LastCall.ret = "Ok" => AllPassed

C2_Witness ==
  /\ Finished
  /\ exitCode = Some(1)
  /\ LastCall = [check |-> "postgres", ret |-> "Err"]
  /\ \E i \in 1..Len(result.msg) : result.msg[i] = "\n"
  /\ Lines(stderr) = 1

\* ---------------------------------------------------------------- C3

\* C3: a check whose enabling flag is absent returns Ok without starting any
\* part of its probe, whatever the environment and the options; with no
\* enabling flag at all run_checks returns Ok and no probe is started.
C3_DisabledIsNoop ==
  /\ \A j \in 1..Len(probes) : probes[j].check \in args.flags
  /\ \A i \in 1..Len(calls) : calls[i].check \notin args.flags => calls[i].ret = "Ok"
  /\ (Len(calls) >= 1 /\ LastCall.check \notin args.flags) => obs = NoObs(LastCall.check)
  /\ (args.flags = {} /\ pc \in {"report", "exited"}) =>
       /\ result = Ok
       /\ probes = <<>>
       /\ Len(calls) = Len(Order)
  /\ (args.flags = {} /\ Finished) => exitCode = Some(0) /\ stderr = <<>>

C3_Witness ==
  /\ Finished
  /\ args.flags = {}
  /\ env["REDIS_URL"] = Some(<<"http", "env">>)
  /\ env["AMQP_URL"] # None
  /\ Len(calls) = Len(Order)
  /\ probes = <<>>
  /\ exitCode = Some(0)

\* ---------------------------------------------------------------- C4

UrlOption(c) ==
  CASE c = "amqp" -> "amqp-url" [] c = "postgres" -> "postgres-url"
    [] c = "redis" -> "redis-url" [] c = "http" -> "http-url"

UrlVariable(c) ==
  CASE c = "amqp" -> "AMQP_URL" [] c = "postgres" -> "POSTGRES_URL" [] c = "redis" -> "REDIS_URL"

UrlLiteral(c) ==
  CASE c = "amqp" -> <<"amqp", "guest:guest@amqp:5432/amqp">>
    [] c = "postgres" -> <<"postgres", "postgres:postgres@postgres:5432/postgres">>
    [] c = "redis" -> <<"redis", "redis:6379/0">>
    [] c = "http" -> <<"http", "localhost:8080">>

TimestampRead ==
  /\ Len(calls) >= 1
  /\ obs.check = "timestamp"
  /\ "timestamp" \in args.flags
  /\ obs.file = "read"
  /\ DigitString(obs.text) # <<>>
  /\ DecimalValue(DigitString(obs.text)) <= I64Max

\* C5: with the Timestamp check enabled and a parsable timestamp ts in the
\* file, diff = now - ts: the check returns a Failure if and only if
\* diff > timeout, the Failure message reports exactly diff - timeout, and the
\* check succeeds for every diff <= timeout.
C5_FreshnessTest ==
  TimestampRead =>
    LET diff == obs.now - DecimalValue(DigitString(obs.text))
    IN /\ (calls[1].ret = "Err") <=> (diff > obs.timeout)
       /\ calls[1].ret = "Err" =>
            result.msg = <<Prefix("timestamp")>> \o IntToStr(diff - obs.timeout)
       /\ diff <= obs.timeout => calls[1].ret = "Ok"

\* C5 where diff - timeout is an integer of the type: the statement holds.
C5_WithinTheIntegerType ==
  (TimestampRead /\ InRange(obs.now - DecimalValue(DigitString(obs.text)) - obs.timeout))
    => C5_FreshnessTest

\* The two cases the claim names: ts = now - 10 passes and ts = now - 30
\* fails by 10 under the timeout 20; and the case that breaks it.
C5_Witness ==
  /\ TimestampRead
  /\ obs.timeout = 20
  /\ obs.now - DecimalValue(DigitString(obs.text)) = 30
  /\ result = Err(<<"Timestamp: Diff larger then timeout by ", "1", "0">>)

C5_WitnessPass ==
  /\ TimestampRead
  /\ obs.timeout = 20
  /\ obs.now - DecimalValue(DigitString(obs.text)) = 10
  /\ calls[1].ret = "Ok"

\* ---------------------------------------------------------------- C6

\* The step of a network check that failed, and the checks that have it.
NetSteps == {"connect", "channel", "query", "command", "request"}

\* C6: with the Timestamp check enabled, an unreadable file and a file whose
\* digit string is empty or denotes no integer of the type end the process in
\* a crash (neither exit 0 nor exit 1 with an Error line), as does a
\* malformed URL of the enabled Redis check, and no later check is evaluated;
\* every error of a connection, channel, query, command or request is returned
\* to run_checks as a Failure.
C6_CrashOrFailure ==
  /\ ( /\ Len(calls) >= 1
       /\ "timestamp" \in args.flags
       /\ obs.check = "timestamp"
       /\ \/ obs.file = "unreadable"
          \/ /\ obs.file = "read"
             /\ \/ DigitString(obs.text) = <<>>
                \/ DecimalValue(DigitString(obs.text)) > I64Max )
     => Crashed /\ calls = <<[check |-> "timestamp", ret |-> "Panic"]>>
  /\ ( /\ Probed("redis")
       /\ probes[Len(probes)].check = "redis"
       /\ probes[Len(probes)].target[1] \notin {"redis", "rediss", "unix", "redis+unix"} )
     => Crashed /\ LastCall = [check |-> "redis", ret |-> "Panic"] /\ ~Called("http")
  /\ obs.net \in NetSteps
     => /\ LastCall = [check |-> obs.check, ret |-> "Err"]
        /\ result = Err(<<Prefix(obs.check)>> \o obs.err)
        /\ pc \in {"report", "exited"}
        /\ Finished => exitCode = Some(1)

C6_Witness ==
  /\ Crashed
  /\ args.flags = Checks
  /\ LastCall = [check |-> "redis", ret |-> "Panic"]
  /\ Len(calls) = 4
  /\ exitCode = Some(101)

C6_WitnessFile ==
  /\ Crashed
  /\ obs.file = "read"
  /\ DigitString(obs.text) = <<>>
  /\ obs.text # <<>>

\* ---------------------------------------------------------------- C7

\* The enabling flag of each dependent flag.
EnablingFlag(o) ==
  CASE o \in {"timestamp-file", "timestamp-timeout"} -> "timestamp"
    [] o = "amqp-url" -> "amqp"
    [] o = "postgres-url" -> "postgres"
    [] o = "redis-url" -> "redis"
    [] o = "http-url" -> "http"

DependentWithoutEnabling ==
  \E o \in OptNames : args.opts[o] # None /\ EnablingFlag(o) \notin args.flags

\* C7: a command line that gives a dependent flag without its enabling flag is
\* rejected by argument parsing: run_checks does not start, no check is
\* evaluated and no probe is started.
C7_DependentNeedsEnabling ==
  DependentWithoutEnabling =>
    /\ pc \in {"parse", "rejected"}
    /\ calls = <<>>
    /\ probes = <<>>
    /\ result = Pending
    /\ pc = "rejected" => exitCode # Some(0)

C7_Witness ==
  /\ pc = "rejected"
  /\ args.opts["http-url"] # None
  /\ "http" \notin args.flags
  /\ args.flags = {"timestamp", "amqp", "postgres", "redis"}
  /\ \A o \in OptNames \ {"http-url"} : args.opts[o] = None

\* ---------------------------------------------------------------- C8

\* C8: with --http given, --http-url absent and HTTP_URL set, the GET request
\* goes to the value of HTTP_URL, as the help text of --http says.
C8_HttpUrlFromEnvironment ==
  \A j \in 1..Len(probes) :
    ( /\ probes[j].check = "http"
      /\ args.opts["http-url"] = None
      /\ env["HTTP_URL"] # None )
    => probes[j].target = env["HTTP_URL"][1]

\* ---------------------------------------------------------------- C9

\* C9: for a text with at least one decimal digit whose digit string denotes
\* an integer of the type, parse_int_safe returns the integer denoted by the
\* digits of the text, in order, every other character being dropped.
C9_DigitsConcatenated ==
  ( /\ parsed.done
    /\ DigitString(input) # <<>>
    /\ DecimalValue(DigitString(input)) <= I64Max )
  => parsed.value = Some(DecimalValue(DigitString(input)))

C9_Witness ==
  /\ parsed.done
  /\ input = <<"1", "2", " ", "3", "4">>
  /\ parsed.value = Some(1234)

\* ---------------------------------------------------------------- C10

\* The integer a text denotes as an integer literal of the type, if any: an
\* optional sign, then digits only, the value within the type.
IsIntLiteral(s) ==
  /\ s # <<>>
  /\ LET body == IF s[1] \in {"+", "-"} THEN Tail(s) ELSE s
     IN /\ body # <<>>
        /\ DigitString(body) = body
        /\ InRange(IF s[1] = "-" THEN -DecimalValue(body) ELSE DecimalValue(body))

LiteralValue(s) ==
  IF s[1] = "-" THEN -DecimalValue(Tail(s))
  ELSE IF s[1] = "+" THEN DecimalValue(Tail(s)) ELSE DecimalValue(s)

\* C10: the threshold of the Timestamp check is the --timestamp-timeout value
\* when it is an integer literal, and 20 when the flag is absent or its value
\* is no integer; a value that is no integer neither crashes the process nor
\* makes the check fail: the check then behaves as under the threshold 20.
C10_TimeoutDefault ==
  (Len(calls) >= 1 /\ obs.check = "timestamp" /\ "timestamp" \in args.flags) =>
    LET given == args.opts["timestamp-timeout"]
        unparsable == given # None /\ ~IsIntLiteral(given[1])
    IN /\ InRange(obs.timeout)
       /\ given = None => obs.timeout = 20
       /\ (given # None /\ IsIntLiteral(given[1])) => obs.timeout = LiteralValue(given[1])
       /\ unparsable => obs.timeout = 20
       /\ (unparsable /\ TimestampRead) =>
            /\ calls[1].ret # "Panic"
            /\ (calls[1].ret = "Err") <=>
                 (obs.now - DecimalValue(DigitString(obs.text)) > 20)

C10_Witness ==
  /\ TimestampRead
  /\ args.opts["timestamp-timeout"] = Some(<<"x">>)
  /\ obs.timeout = 20
  /\ obs.now - DecimalValue(DigitString(obs.text)) = 20
  /\ calls[1].ret = "Ok"

====
